---------------------------- MODULE Spec2Model ----------------------------
(***************************************************************************)
(* A model of antrogers/fund_modelling: the month-granularity calendar     *)
(* arithmetic of fund_models/date_utils.py and the closed-end fund         *)
(* cash-flow engine of fund_models/fund_models.py (ClosedEndFund).         *)
(*                                                                         *)
(* Dates are records [year, month, day].  Python floats are modelled as    *)
(* exact rationals [n, d] in lowest terms with d > 0, so every equality    *)
(* below is an equality of real numbers: floating-point rounding is not    *)
(* modelled.  A Python dict is a sequence of [k, v] entries in insertion   *)
(* order.  A call either returns a value or raises; both are carried in a  *)
(* record [exc, value].                                                    *)
(***************************************************************************)
EXTENDS Integers, Sequences, FiniteSets, TLC

VARIABLES
    args,      \* the arguments handed to ClosedEndFund(...)
    pc,        \* "new", "constructed", "rejected", "returned" or "calendar"
    fund,      \* the attributes of the constructed instance (self), or NoFund
    called,    \* the name of the method called on the instance, or "none"
    raised,    \* the exception the last call raised, or NoException
    returned,  \* the value the last call returned
    calArgs,   \* the arguments of the calendar functions under test
    calOut     \* the results of the calendar functions applied to calArgs

vars == <<args, pc, fund, called, raised, returned, calArgs, calOut>>

---------------------------------------------------------------------------
(* Bounds of the model.                                                    *)

\* number_of_months_of_deployment ranges over -MaxMonths..MaxMonths
MaxMonths == 3
\* number_of_months_in_between_deployments ranges over -MaxInterval..MaxInterval
MaxInterval == 2
\* length_of_deployment_in_months ranges over -1..MaxLength
MaxLength == 2
\* num_months of add_n_months ranges over -MaxShift..MaxShift
MaxShift == 13

---------------------------------------------------------------------------
(* Exact rational arithmetic (the real-number reading of Python floats).   *)

Abs(x) == IF x < 0 THEN -x ELSE x

RECURSIVE GCD(_, _)
GCD(a, b) == IF b = 0 THEN a ELSE GCD(b, a % b)

\* the rational n/d in lowest terms, d # 0
R(n, d) ==
    LET g == GCD(Abs(n), Abs(d))
        s == IF d < 0 THEN -1 ELSE 1
    IN  [n |-> (s * n) \div g, d |-> (s * d) \div g]

Zero == R(0, 1)
One == R(1, 1)
Half == R(1, 2)
RInt(i) == R(i, 1)

RAdd(x, y) ==
    LET l == (x.d \div GCD(x.d, y.d)) * y.d
    IN  R(x.n * (l \div x.d) + y.n * (l \div y.d), l)
RNeg(x) == [n |-> -x.n, d |-> x.d]
RSub(x, y) == RAdd(x, RNeg(y))
RMul(x, y) ==
    LET a == R(x.n, y.d)
        b == R(y.n, x.d)
    IN  [n |-> a.n * b.n, d |-> a.d * b.d]
\* x / y, y # 0
RDiv(x, y) == RMul(x, R(y.d, y.n))
RLt(x, y) == RSub(x, y).n < 0
RLe(x, y) == RSub(x, y).n <= 0
RMin(x, y) == IF RLe(x, y) THEN x ELSE y

RECURSIVE RPow(_, _)
\* x ** k for an integer k (x # 0 when k < 0)
RPow(x, k) ==
    IF k = 0 THEN One
    ELSE IF k < 0 THEN RDiv(One, RPow(x, -k))
    ELSE RMul(x, RPow(x, k - 1))

MonthsPerYear == 12

\* the non-negative integer whose 12th power is m, for the perfect 12th
\* powers up to 5 ** 12
Root12Int(m) == CHOOSE k \in 0..5 : k ^ MonthsPerYear = m
\* x ** (1/12) for a positive rational whose numerator and denominator are
\* perfect 12th powers
Root12(x) == R(Root12Int(x.n), Root12Int(x.d))

\* Python's a % b for b # 0: the result has the sign of b
PyMod(a, b) == IF b > 0 THEN a % b ELSE -((-a) % (-b))
\* int(a / b) for b # 0: the quotient truncated towards zero
PyIntDiv(a, b) ==
    LET q == Abs(a) \div Abs(b)
    IN  IF (a < 0) = (b < 0) THEN q ELSE -q

---------------------------------------------------------------------------
(* Python dicts and call results.                                          *)

Keys(dict) == {dict[i].k : i \in 1..Len(dict)}
Get(dict, key, default) ==
    IF key \in Keys(dict)
    THEN dict[CHOOSE i \in 1..Len(dict) : dict[i].k = key].v
    ELSE default
Update(dict, key, value) ==
    IF key \in Keys(dict)
    THEN [i \in 1..Len(dict) |->
            IF dict[i].k = key THEN [k |-> key, v |-> value] ELSE dict[i]]
    ELSE Append(dict, [k |-> key, v |-> value])

NoException == [type |-> "none", message |-> ""]
Ok(v) == [exc |-> NoException, value |-> v]
Raise(type, message) == [exc |-> [type |-> type, message |-> message], value |-> <<>>]
IsOk(r) == r.exc = NoException

---------------------------------------------------------------------------
(* Calendar arithmetic: fund_models/date_utils.py                          *)

Date(y, m, d) == [year |-> y, month |-> m, day |-> d]

\* datetime.date ordering
DateLt(a, b) ==
    \/ a.year < b.year
    \/ a.year = b.year /\ a.month < b.month
    \/ a.year = b.year /\ a.month = b.month /\ a.day < b.day
DateLe(a, b) == a = b \/ DateLt(a, b)

\* calendar.isleap
isleap(year) == year % 4 = 0 /\ (year % 100 # 0 \/ year % 400 = 0)

\* calendar.monthrange(year, month)[1]
monthrange(year, month) ==
    IF month = 2 THEN (IF isleap(year) THEN 29 ELSE 28)
    ELSE IF month \in {4, 6, 9, 11} THEN 30
    ELSE 31

year_month_num(date) == date.year * MonthsPerYear + date.month

\* a slip in the December branch: the year is not taken back by one
end_of_month_from_int_december_slip(year_month_int) ==
    LET eom_year == year_month_int \div MonthsPerYear
        eom_month == IF year_month_int % MonthsPerYear # 0
                     THEN year_month_int % MonthsPerYear
                     ELSE MonthsPerYear
    IN  Date(eom_year, eom_month, monthrange(eom_year, eom_month))

end_of_month_from_int(year_month_int) ==
    LET eom_year == IF year_month_int % MonthsPerYear # 0
                    THEN year_month_int \div MonthsPerYear
                    ELSE year_month_int \div MonthsPerYear - 1
        eom_month == IF year_month_int % MonthsPerYear # 0
                     THEN year_month_int % MonthsPerYear
                     ELSE MonthsPerYear
        eom_day == monthrange(eom_year, eom_month)
    IN  Date(eom_year, eom_month, eom_day)

end_of_month_from_date(date) == end_of_month_from_int(year_month_num(date))

\* the end_of_month flag is ignored: the day of the start date is kept
add_n_months_never_snaps(start_date, num_months, end_of_month) ==
    LET ym == year_month_num(start_date) + num_months
        return_date_year == IF ym % MonthsPerYear # 0
                            THEN ym \div MonthsPerYear
                            ELSE ym \div MonthsPerYear - 1
        return_date_month == IF ym % MonthsPerYear # 0
                             THEN ym % MonthsPerYear ELSE MonthsPerYear
        return_date_day ==
            IF start_date.day < monthrange(return_date_year, return_date_month)
            THEN start_date.day
            ELSE monthrange(return_date_year, return_date_month)
    IN  Date(return_date_year, return_date_month, return_date_day)

add_n_months(start_date, num_months, end_of_month) ==
    LET return_date_year_month_int == year_month_num(start_date) + num_months
        return_date_year ==
            IF return_date_year_month_int % MonthsPerYear # 0
            THEN return_date_year_month_int \div MonthsPerYear
            ELSE return_date_year_month_int \div MonthsPerYear - 1
        return_date_month ==
            IF return_date_year_month_int % MonthsPerYear # 0
            THEN return_date_year_month_int % MonthsPerYear
            ELSE MonthsPerYear
        return_date_day ==
            IF start_date.day < monthrange(return_date_year, return_date_month)
            THEN start_date.day
            ELSE monthrange(return_date_year, return_date_month)
        return_date == Date(return_date_year, return_date_month, return_date_day)
    IN  IF end_of_month THEN end_of_month_from_date(return_date) ELSE return_date

number_of_months_diff(start_date, end_date) ==
    year_month_num(end_date) - year_month_num(start_date)

\* range(0, month_diff + 1) is empty when month_diff < 0
generate_monthly_date_series(start_date, end_date) ==
    LET month_diff == number_of_months_diff(start_date, end_date)
    IN  IF month_diff + 1 <= 0 THEN <<>>
        ELSE [i \in 1..(month_diff + 1) |->
                end_of_month_from_int(year_month_num(start_date) + (i - 1))]

days_in_month(date) == monthrange(date.year, date.month)

days_in_year(date) == IF isleap(date.year) THEN 366 ELSE 365

---------------------------------------------------------------------------
(* The fund engine: fund_models/fund_models.py, class ClosedEndFund        *)

NoFund == [fund_name |-> "none"]

\* ClosedEndFund.__init__: the validation, then the attributes of self.
\* number_of_months_of_deployment % 0 raises ZeroDivisionError.
ClosedEndFund(a) ==
    IF DateLt(a.deployment_start_date, a.fund_start_date)
    THEN Raise("ClosedEndFundError",
               "Deployment start date must be later than fund start date")
    ELSE IF end_of_month_from_date(a.fund_start_date) # a.fund_start_date
    THEN Raise("ClosedEndFundError", "Fund start date must be at end of month")
    ELSE IF end_of_month_from_date(a.deployment_start_date) # a.deployment_start_date
    THEN Raise("ClosedEndFundError", "Deployment start date must be at end of month")
    ELSE IF a.number_of_months_in_between_deployments = 0
    THEN Raise("ZeroDivisionError", "integer modulo by zero")
    ELSE IF PyMod(a.number_of_months_of_deployment,
                  a.number_of_months_in_between_deployments) # 0
    THEN Raise("ClosedEndFundError", "There must be a whole number of deployments")
    ELSE IF RLe(a.committed_capital, Zero)
    THEN Raise("ClosedEndFundError", "Committed capital must be greater than zero")
    ELSE Ok([a EXCEPT
                !.fund_start_date = end_of_month_from_date(a.fund_start_date),
                !.deployment_start_date =
                    end_of_month_from_date(a.deployment_start_date)])

irr_per_month(self) == RSub(Root12(RAdd(One, self.annual_effective_irr)), One)

irr_hurdle_per_month(self) ==
    RSub(Root12(RAdd(One, self.annual_effective_irr_hurdle)), One)

\* numpy_financial.fv(rate, nper, pmt=0, pv, when='end') = -(pv * (1 + rate) ** nper)
fv(rate, nper, pv) == RNeg(RMul(pv, RPow(RAdd(One, rate), nper)))

\* max() of a non-empty set of dates
MaxDate(dates) == CHOOSE m \in dates : \A x \in dates : DateLe(x, m)

RECURSIVE deployments_loop(_, _, _)
\* the dict after the iterations num = 0 .. n - 1 of the loop of generate_deployments
deployments_loop(self, amount_per_deployment, n) ==
    IF n <= 0 THEN <<>>
    ELSE Update(deployments_loop(self, amount_per_deployment, n - 1),
                add_n_months(self.deployment_start_date,
                             (n - 1) * self.number_of_months_in_between_deployments,
                             TRUE),
                amount_per_deployment)

\* the last deployment is left out of the schedule
generate_deployments_one_short(self) ==
    LET number_of_deployments ==
            PyIntDiv(self.number_of_months_of_deployment,
                     self.number_of_months_in_between_deployments)
    IN  IF number_of_deployments = 0
        THEN Raise("ZeroDivisionError", "float division by zero")
        ELSE Ok(deployments_loop(self,
                    RDiv(self.committed_capital, RInt(number_of_deployments)),
                    number_of_deployments - 1))

generate_deployments(self) ==
    LET number_of_deployments ==
            PyIntDiv(self.number_of_months_of_deployment,
                     self.number_of_months_in_between_deployments)
    IN  IF number_of_deployments = 0
        THEN Raise("ZeroDivisionError", "float division by zero")
        ELSE Ok(deployments_loop(self,
                    RDiv(self.committed_capital, RInt(number_of_deployments)),
                    number_of_deployments))

RECURSIVE proceeds_loop(_, _, _)
proceeds_loop(self, deployments, n) ==
    IF n = 0 THEN <<>>
    ELSE Update(proceeds_loop(self, deployments, n - 1),
                add_n_months(deployments[n].k,
                             self.length_of_deployment_in_months, TRUE),
                fv(irr_per_month(self), self.length_of_deployment_in_months,
                   RNeg(deployments[n].v)))

\* the body of generate_proceeds, given what generate_deployments() gave
proceeds_from(self, deployments) ==
    IF ~IsOk(deployments) THEN deployments
    ELSE Ok(proceeds_loop(self, deployments.value, Len(deployments.value)))

generate_proceeds(self) == proceeds_from(self, generate_deployments(self))

RECURSIVE capital_returns_loop(_, _, _)
capital_returns_loop(self, deployments, n) ==
    IF n = 0 THEN <<>>
    ELSE Update(capital_returns_loop(self, deployments, n - 1),
                add_n_months(deployments[n].k,
                             self.length_of_deployment_in_months, TRUE),
                deployments[n].v)

\* the body of generate_capital_returns, given what generate_deployments() gave
capital_returns_from(self, deployments) ==
    IF ~IsOk(deployments) THEN deployments
    ELSE Ok(capital_returns_loop(self, deployments.value, Len(deployments.value)))

generate_capital_returns(self) ==
    capital_returns_from(self, generate_deployments(self))

\* max() of an empty dict raises ValueError
series_from(self, capital_returns) ==
    IF ~IsOk(capital_returns) THEN capital_returns
    ELSE IF capital_returns.value = <<>>
    THEN Raise("ValueError", "max() arg is an empty sequence")
    ELSE Ok(generate_monthly_date_series(self.fund_start_date,
                MaxDate(Keys(capital_returns.value))))

monthly_date_series(self) == series_from(self, generate_capital_returns(self))

\* capital_returns.get(date) is never None: both dicts have the same keys
profits_from(capital_returns, proceeds) ==
    IF ~IsOk(capital_returns) THEN capital_returns
    ELSE Ok([i \in 1..Len(proceeds.value) |->
                [k |-> proceeds.value[i].k,
                 v |-> RSub(proceeds.value[i].v,
                            Get(capital_returns.value, proceeds.value[i].k, Zero))]])

generate_profits(self) ==
    profits_from(generate_capital_returns(self), generate_proceeds(self))

\* The eleven schedules before the first date of the loop
EmptyAllocations ==
    [lp_preferred_opening |-> <<>>, lp_preferred_irr_growth |-> <<>>,
     lp_preferred_payments |-> <<>>, lp_preferred_closing |-> <<>>,
     catch_up_opening |-> <<>>, catch_up_accruals |-> <<>>,
     catch_up_payments_gp_share |-> <<>>, catch_up_payments_lp_share |-> <<>>,
     catch_up_closing |-> <<>>,
     post_catch_up_payments_gp_share |-> <<>>,
     post_catch_up_payments_lp_share |-> <<>>]

\* the catch-up balance is not grossed up by the LP half of the payment
catch_up_payment_not_grossed_up(catch_up_opening_balance, catch_up_accrual, surplus) ==
    RMin(RAdd(catch_up_opening_balance, catch_up_accrual), surplus)

\* min((catch_up_opening_balance + catch_up_accrual) / 0.5, proceed - lp_preferred_payment)
catch_up_payment_of(catch_up_opening_balance, catch_up_accrual, surplus) ==
    RMin(RDiv(RAdd(catch_up_opening_balance, catch_up_accrual), Half), surplus)

\* the accrual is made whether or not the GP is entitled to a catch-up
catch_up_accrual_ignoring_carry_catch_up(self, lp_preferred_irr_growth_for_month) ==
    RMul(lp_preferred_irr_growth_for_month,
         RMul(RDiv(self.carry_percent, RSub(Half, self.carry_percent)), Half))

\* lp_preferred_irr_growth_for_month
\*     * (self.carry_percent / (0.5 - self.carry_percent) * 0.5) * self.carry_catch_up
catch_up_accrual_of(self, lp_preferred_irr_growth_for_month) ==
    RMul(RMul(lp_preferred_irr_growth_for_month,
              RMul(RDiv(self.carry_percent, RSub(Half, self.carry_percent)), Half)),
         IF self.carry_catch_up THEN One ELSE Zero)

\* both halves of the catch-up payment are deducted from the balance
catch_up_closing_less_whole_payment(catch_up_opening_balance, catch_up_accrual, catch_up_payment_gp_share) ==
    RSub(RAdd(catch_up_opening_balance, catch_up_accrual),
         RDiv(catch_up_payment_gp_share, Half))

\* catch_up_opening_balance + catch_up_accrual - catch_up_payment_gp_share
catch_up_closing_of(catch_up_opening_balance, catch_up_accrual, catch_up_payment_gp_share) ==
    RSub(RAdd(catch_up_opening_balance, catch_up_accrual), catch_up_payment_gp_share)

\* the LP share is given the GP's percentage
post_catch_up_payment_lp_share_at_carry(self, post_catch_up_payment) ==
    RMul(post_catch_up_payment, self.carry_percent)

\* post_catch_up_payment * (1 - self.carry_percent)
post_catch_up_payment_lp_share_of(self, post_catch_up_payment) ==
    RMul(post_catch_up_payment, RSub(One, self.carry_percent))

\* one iteration of the loop of generate_proceeds_allocations_as_dict, carry_percent # 0.5
allocation_step(self, s, date, deployments, proceeds) ==
    LET proceed == Get(proceeds, date, Zero)
        previous == add_n_months(date, -1, TRUE)
        lp_preferred_opening_balance == Get(s.lp_preferred_closing, previous, Zero)
        lp_preferred_irr_growth_for_month ==
            RMul(lp_preferred_opening_balance, irr_hurdle_per_month(self))
        deployment == Get(deployments, date, Zero)
        lp_preferred_due ==
            RAdd(RAdd(lp_preferred_opening_balance, lp_preferred_irr_growth_for_month),
                 deployment)
        lp_preferred_payment == RMin(proceed, lp_preferred_due)
        catch_up_opening_balance == Get(s.catch_up_closing, previous, Zero)
        catch_up_accrual == catch_up_accrual_of(self, lp_preferred_irr_growth_for_month)
        surplus == RLt(lp_preferred_payment, proceed)
        catch_up_payment ==
            catch_up_payment_of(catch_up_opening_balance, catch_up_accrual,
                                RSub(proceed, lp_preferred_payment))
        catch_up_payment_gp_share == RMul(catch_up_payment, Half)
        catch_up_payment_lp_share == RMul(catch_up_payment, Half)
        post == surplus /\ RLt(RAdd(lp_preferred_payment, catch_up_payment), proceed)
        post_catch_up_payment ==
            RSub(RSub(proceed, lp_preferred_payment), catch_up_payment)
    IN  [lp_preferred_opening |->
            Update(s.lp_preferred_opening, date, lp_preferred_opening_balance),
         lp_preferred_irr_growth |->
            Update(s.lp_preferred_irr_growth, date, lp_preferred_irr_growth_for_month),
         lp_preferred_payments |->
            Update(s.lp_preferred_payments, date, lp_preferred_payment),
         lp_preferred_closing |->
            Update(s.lp_preferred_closing, date,
                   RSub(lp_preferred_due, lp_preferred_payment)),
         catch_up_opening |->
            Update(s.catch_up_opening, date, catch_up_opening_balance),
         catch_up_accruals |->
            Update(s.catch_up_accruals, date, catch_up_accrual),
         catch_up_payments_gp_share |->
            Update(s.catch_up_payments_gp_share, date,
                   IF surplus THEN catch_up_payment_gp_share ELSE Zero),
         catch_up_payments_lp_share |->
            Update(s.catch_up_payments_lp_share, date,
                   IF surplus THEN catch_up_payment_lp_share ELSE Zero),
         catch_up_closing |->
            Update(s.catch_up_closing, date,
                   IF surplus
                   THEN catch_up_closing_of(catch_up_opening_balance, catch_up_accrual,
                                            catch_up_payment_gp_share)
                   ELSE RAdd(catch_up_opening_balance, catch_up_accrual)),
         post_catch_up_payments_gp_share |->
            Update(s.post_catch_up_payments_gp_share, date,
                   IF post THEN RMul(post_catch_up_payment, self.carry_percent)
                   ELSE Zero),
         post_catch_up_payments_lp_share |->
            Update(s.post_catch_up_payments_lp_share, date,
                   IF post
                   THEN post_catch_up_payment_lp_share_of(self, post_catch_up_payment)
                   ELSE Zero)]

RECURSIVE allocations_loop(_, _, _, _, _)
\* the schedules after the first n dates of the series
allocations_loop(self, series, deployments, proceeds, n) ==
    IF n = 0 THEN EmptyAllocations
    ELSE allocation_step(self,
                         allocations_loop(self, series, deployments, proceeds, n - 1),
                         series[n], deployments, proceeds)

\* 0.5 - carry_percent = 0 raises ZeroDivisionError in the first iteration
allocations_from(self, deployments, proceeds, series) ==
    IF ~IsOk(deployments) THEN deployments
    ELSE IF ~IsOk(series) THEN series
    ELSE IF series.value # <<>> /\ self.carry_percent = Half
    THEN Raise("ZeroDivisionError", "float division by zero")
    ELSE Ok(allocations_loop(self, series.value, deployments.value,
                             proceeds.value, Len(series.value)))

generate_proceeds_allocations_as_dict(self) ==
    allocations_from(self, generate_deployments(self), generate_proceeds(self),
                     monthly_date_series(self))

RECURSIVE closing_invested_capital_loop(_, _, _, _)
closing_invested_capital_loop(series, deployments, capital_returns, n) ==
    IF n = 0 THEN <<>>
    ELSE LET closing_invested_capital ==
                closing_invested_capital_loop(series, deployments, capital_returns, n - 1)
             date == series[n]
             opening_balance ==
                Get(closing_invested_capital, add_n_months(date, -1, TRUE), Zero)
             deployment == Get(deployments, date, Zero)
             capital_return == Get(capital_returns, date, Zero)
         IN  Update(closing_invested_capital, date,
                    RSub(RAdd(opening_balance, deployment), capital_return))

closing_invested_capital_from(deployments, capital_returns, series) ==
    IF ~IsOk(deployments) THEN deployments
    ELSE IF ~IsOk(series) THEN series
    ELSE Ok(closing_invested_capital_loop(series.value, deployments.value,
                capital_returns.value, Len(series.value)))

generate_closing_invested_capital(self) ==
    closing_invested_capital_from(generate_deployments(self),
                                  generate_capital_returns(self),
                                  monthly_date_series(self))

RECURSIVE fee_paying_capital_loop(_, _, _, _, _)
fee_paying_capital_loop(self, series, closing_invested_capital, last_deployments, n) ==
    IF n = 0 THEN <<>>
    ELSE LET date == series[n]
             capital == IF DateLe(date, last_deployments)
                        THEN self.committed_capital
                        ELSE Get(closing_invested_capital, date, Zero)
         IN  Update(fee_paying_capital_loop(self, series, closing_invested_capital,
                                            last_deployments, n - 1),
                    date, capital)

fee_paying_capital_from(self, closing_invested_capital, deployments, series) ==
    IF ~IsOk(closing_invested_capital) THEN closing_invested_capital
    ELSE IF deployments.value = <<>>
    THEN Raise("ValueError", "max() arg is an empty sequence")
    ELSE Ok(fee_paying_capital_loop(self, series.value,
                closing_invested_capital.value,
                MaxDate(Keys(deployments.value)), Len(series.value)))

generate_fee_paying_capital(self) ==
    fee_paying_capital_from(self, generate_closing_invested_capital(self),
                            generate_deployments(self), monthly_date_series(self))

\* the last deployment date is already charged on invested capital
mgmt_fee_basis_strictly_before(self, date, closing_invested_capital_balance, last_deployments) ==
    IF DateLt(date, last_deployments)
    THEN self.committed_capital
    ELSE closing_invested_capital_balance

\* the fee basis of one date: committed capital until deployments cease
mgmt_fee_basis(self, date, closing_invested_capital_balance, last_deployments) ==
    IF DateLe(date, last_deployments)
    THEN self.committed_capital
    ELSE closing_invested_capital_balance

RECURSIVE mgmt_fees_loop(_, _, _, _, _)
mgmt_fees_loop(self, series, closing_invested_capital, last_deployments, n) ==
    IF n = 0 THEN <<>>
    ELSE LET date == series[n]
             num_days_in_month == days_in_month(date)
             num_days_in_year == days_in_year(date)
             closing_invested_capital_balance ==
                Get(closing_invested_capital, date, Zero)
             fee == RDiv(RMul(RMul(mgmt_fee_basis(self, date,
                                       closing_invested_capital_balance,
                                       last_deployments),
                                   self.annual_mgmt_fee_rate),
                              RInt(num_days_in_month)),
                         RInt(num_days_in_year))
         IN  Update(mgmt_fees_loop(self, series, closing_invested_capital,
                                   last_deployments, n - 1),
                    date, fee)

mgmt_fees_from(self, closing_invested_capital, deployments, series) ==
    IF ~IsOk(closing_invested_capital) THEN closing_invested_capital
    ELSE IF deployments.value = <<>>
    THEN Raise("ValueError", "max() arg is an empty sequence")
    ELSE Ok(mgmt_fees_loop(self, series.value, closing_invested_capital.value,
                MaxDate(Keys(deployments.value)), Len(series.value)))

generate_mgmt_fees(self) ==
    mgmt_fees_from(self, generate_closing_invested_capital(self),
                   generate_deployments(self), monthly_date_series(self))

\* {date: date for date in self.monthly_date_series}
dates_dict(series) == [i \in 1..Len(series) |-> [k |-> series[i], v |-> series[i]]]

\* the seven schedules first, in the order the code computes them, then the
\* eleven schedules of the proceeds allocation
summary_from(series, deployments, capital_returns, closing_invested_capital, fee_paying_capital, mgmt_fees, proceeds, allocations) ==
    IF ~IsOk(series) THEN series
    ELSE IF ~IsOk(fee_paying_capital) THEN fee_paying_capital
    ELSE IF ~IsOk(allocations) THEN allocations
    ELSE Ok([dates |-> dates_dict(series.value),
             deployments |-> deployments.value,
             capital_returns |-> capital_returns.value,
             closing_invested_capital |-> closing_invested_capital.value,
             fee_paying_capital |-> fee_paying_capital.value,
             mgmt_fees |-> mgmt_fees.value,
             proceeds |-> proceeds.value] @@ allocations.value)

generate_fund_schedules_summary_dict(self) ==
    summary_from(monthly_date_series(self), generate_deployments(self),
                 generate_capital_returns(self),
                 generate_closing_invested_capital(self),
                 generate_fee_paying_capital(self), generate_mgmt_fees(self),
                 generate_proceeds(self),
                 generate_proceeds_allocations_as_dict(self))

---------------------------------------------------------------------------
(* The inputs.                                                             *)

\* month-ends and one date that is not a month-end
FundStartDates == {Date(2023, 12, 31), Date(2024, 1, 30)}
\* before, at and after the fund start; 2024 is a leap year
DeploymentStartDates ==
    {Date(2023, 11, 30), Date(2023, 12, 31), Date(2024, 2, 28), Date(2024, 2, 29)}
Months == (-MaxMonths)..MaxMonths
Intervals == (-MaxInterval)..MaxInterval
Lengths == (-1)..MaxLength
CommittedCapitals == {Zero, RInt(100)}
\* annual rates whose monthly rates (1 + annual) ** (1/12) - 1 are 0 and 2
AnnualIrrs == {Zero, RInt(3 ^ MonthsPerYear - 1)}
\* annual hurdles whose monthly rates are -1/2, 0 and 1
AnnualHurdles == {R(1 - 2 ^ MonthsPerYear, 2 ^ MonthsPerYear), Zero,
                  RInt(2 ^ MonthsPerYear - 1)}
CarryPercents == {Zero, R(1, 5), R(2, 5), Half, R(3, 5)}
MgmtFeeRates == {R(1, 200)}

\* every combination the validation tells apart, at one setting of the rest
ValidationArgs ==
    [fund_start_date : FundStartDates,
     deployment_start_date : DeploymentStartDates,
     number_of_months_of_deployment : Months,
     number_of_months_in_between_deployments : Intervals,
     committed_capital : CommittedCapitals,
     length_of_deployment_in_months : {MaxLength},
     annual_effective_irr : {RInt(3 ^ MonthsPerYear - 1)},
     annual_effective_irr_hurdle : {RInt(2 ^ MonthsPerYear - 1)},
     carry_percent : {R(1, 5)},
     carry_catch_up : {TRUE},
     annual_mgmt_fee_rate : MgmtFeeRates]

\* every combination of the schedule parameters, at dates that pass the date checks
ScheduleArgs ==
    [fund_start_date : {Date(2023, 12, 31)},
     deployment_start_date : {Date(2023, 12, 31), Date(2024, 2, 29)},
     number_of_months_of_deployment : Months,
     number_of_months_in_between_deployments : Intervals,
     committed_capital : {RInt(100)},
     length_of_deployment_in_months : Lengths,
     annual_effective_irr : AnnualIrrs,
     annual_effective_irr_hurdle : AnnualHurdles,
     carry_percent : CarryPercents,
     carry_catch_up : BOOLEAN,
     annual_mgmt_fee_rate : MgmtFeeRates]

ArgSpace == ValidationArgs \cup ScheduleArgs

NoCalArgs == <<>>
NoCalOut == <<>>

\* the calendar functions are tried on the dates of a common and a leap year
CalDates ==
    {d \in [year : {2023, 2024}, month : 1..MonthsPerYear, day : {1, 28, 29, 30, 31}] :
        d.day <= monthrange(d.year, d.month)}
\* end dates before, inside and after the years of CalDates
CalEndDates ==
    {Date(2022, 11, 15), Date(2023, 1, 31), Date(2023, 12, 31), Date(2024, 2, 29),
     Date(2024, 3, 1), Date(2025, 1, 10)}
CalArgSpace ==
    [start_date : CalDates, num_months : (-MaxShift)..MaxShift, end_date : CalEndDates]

---------------------------------------------------------------------------
(* The state machine: one fund is constructed, then one method is called.  *)
(* The instance is never mutated after construction, so a second call      *)
(* would compute what the first did.                                       *)

Init ==
    /\ args \in ArgSpace
    /\ pc = "new"
    /\ fund = NoFund
    /\ called = "none"
    /\ raised = NoException
    /\ returned = <<>>
    /\ calArgs = NoCalArgs
    /\ calOut = NoCalOut

\* ClosedEndFund(...): an instance, or an exception and no instance
Construct ==
    /\ pc = "new"
    /\ LET r == ClosedEndFund(args)
       IN  /\ pc' = IF IsOk(r) THEN "constructed" ELSE "rejected"
           /\ fund' = IF IsOk(r) THEN r.value ELSE NoFund
           /\ raised' = r.exc
    /\ called' = "__init__"
    /\ UNCHANGED <<args, returned, calArgs, calOut>>

\* the call returns result.value or raises result.exc
Return(name, result) ==
    /\ pc' = "returned"
    /\ called' = name
    /\ raised' = result.exc
    /\ returned' = result.value
    /\ UNCHANGED <<args, fund, calArgs, calOut>>

Call_monthly_date_series ==
    /\ pc = "constructed"
    /\ Return("monthly_date_series", monthly_date_series(fund))

Call_generate_deployments ==
    /\ pc = "constructed"
    /\ Return("generate_deployments", generate_deployments(fund))

Call_generate_proceeds ==
    /\ pc = "constructed"
    /\ Return("generate_proceeds", generate_proceeds(fund))

Call_generate_capital_returns ==
    /\ pc = "constructed"
    /\ Return("generate_capital_returns", generate_capital_returns(fund))

Call_generate_profits ==
    /\ pc = "constructed"
    /\ Return("generate_profits", generate_profits(fund))

Call_generate_closing_invested_capital ==
    /\ pc = "constructed"
    /\ Return("generate_closing_invested_capital", generate_closing_invested_capital(fund))

Call_generate_fee_paying_capital ==
    /\ pc = "constructed"
    /\ Return("generate_fee_paying_capital", generate_fee_paying_capital(fund))

Call_generate_mgmt_fees ==
    /\ pc = "constructed"
    /\ Return("generate_mgmt_fees", generate_mgmt_fees(fund))

Call_generate_proceeds_allocations_as_dict ==
    /\ pc = "constructed"
    /\ Return("generate_proceeds_allocations_as_dict", generate_proceeds_allocations_as_dict(fund))

Call_generate_fund_schedules_summary_dict ==
    /\ pc = "constructed"
    /\ Return("generate_fund_schedules_summary_dict", generate_fund_schedules_summary_dict(fund))

Next ==
    \/ Construct
    \/ Call_monthly_date_series
    \/ Call_generate_deployments
    \/ Call_generate_proceeds
    \/ Call_generate_capital_returns
    \/ Call_generate_profits
    \/ Call_generate_closing_invested_capital
    \/ Call_generate_fee_paying_capital
    \/ Call_generate_mgmt_fees
    \/ Call_generate_proceeds_allocations_as_dict
    \/ Call_generate_fund_schedules_summary_dict

Spec == Init /\ [][Next]_vars

---------------------------------------------------------------------------
(* The calendar functions applied to bounded inputs.                       *)

InitCal ==
    /\ args = <<>>
    /\ pc = "calendar"
    /\ fund = NoFund
    /\ called = "none"
    /\ raised = NoException
    /\ returned = <<>>
    /\ calArgs \in CalArgSpace
    /\ calOut = [snapped_shift |-> <<>>, shift_snapped |-> <<>>, series |-> <<>>]

\* add_n_months(end_of_month_from_date(start_date), num_months, end_of_month=True)
ShiftEndOfMonth ==
    /\ pc = "calendar"
    /\ calOut.snapped_shift = <<>>
    /\ calOut' = [calOut EXCEPT !.snapped_shift =
            <<add_n_months(end_of_month_from_date(calArgs.start_date),
                           calArgs.num_months, TRUE)>>]
    /\ UNCHANGED <<args, pc, fund, called, raised, returned, calArgs>>

\* end_of_month_from_date(add_n_months(start_date, num_months, end_of_month=False))
EndOfMonthOfShift ==
    /\ pc = "calendar"
    /\ calOut.shift_snapped = <<>>
    /\ calOut' = [calOut EXCEPT !.shift_snapped =
            <<end_of_month_from_date(add_n_months(calArgs.start_date,
                                                  calArgs.num_months, FALSE))>>]
    /\ UNCHANGED <<args, pc, fund, called, raised, returned, calArgs>>

\* generate_monthly_date_series(start_date, end_date)
MonthlyDateSeries ==
    /\ pc = "calendar"
    /\ calOut.series = <<>>
    /\ calOut' = [calOut EXCEPT !.series =
            <<generate_monthly_date_series(calArgs.start_date, calArgs.end_date)>>]
    /\ UNCHANGED <<args, pc, fund, called, raised, returned, calArgs>>

NextCal == ShiftEndOfMonth \/ EndOfMonthOfShift \/ MonthlyDateSeries

SpecCal == InitCal /\ [][NextCal]_vars

---------------------------------------------------------------------------
(* Properties of the calendar functions (checked under SpecCal).           *)

\* the last day of month m of year y, written without the month-index decoding
MonthEnd(y, m) == Date(y, m, monthrange(y, m))
IsMonthEnd(d) == d = MonthEnd(d.year, d.month)
\* b is the month-end of the month that follows the month of a
IsNextMonthEnd(a, b) ==
    IF a.month = MonthsPerYear
    THEN b = MonthEnd(a.year + 1, 1)
    ELSE b = MonthEnd(a.year, a.month + 1)

BothShiftsDone ==
    pc = "calendar" /\ calOut.snapped_shift # <<>> /\ calOut.shift_snapped # <<>>
SeriesDone == pc = "calendar" /\ calOut.series # <<>>

\* C8: for every date and every integer n, adding n months to the month-end
\* of the date with snapping gives the same date as taking the month-end of
\* the date moved n months without snapping.
C8_ShiftCommutesWithEndOfMonth ==
    BothShiftsDone => calOut.snapped_shift[1] = calOut.shift_snapped[1]

\* C8 witness: a negative shift from a day that is not a month-end lands in
\* the December of the year before, and both sides were computed.
C8_Witness ==
    /\ BothShiftsDone
    /\ calArgs.num_months < 0
    /\ ~IsMonthEnd(calArgs.start_date)
    /\ calOut.snapped_shift[1] = Date(calArgs.start_date.year - 1, MonthsPerYear, 31)

\* C9 as stated: for ALL dates a and b the series has length
\* number_of_months_diff(a, b) + 1, starts at the month-end of a's month,
\* ends at the month-end of b's month and moves one month per element.
C9_SeriesForAllDates ==
    SeriesDone =>
        LET series == calOut.series[1]
            a == calArgs.start_date
            b == calArgs.end_date
        IN  /\ Len(series) = number_of_months_diff(a, b) + 1
            /\ Len(series) >= 1 =>
                 /\ series[1] = MonthEnd(a.year, a.month)
                 /\ series[Len(series)] = MonthEnd(b.year, b.month)
            /\ \A i \in 1..(Len(series) - 1) : IsNextMonthEnd(series[i], series[i + 1])

\* C9 amended: when the month of a is not after the month of b the series has
\* length number_of_months_diff(a, b) + 1, starts at the month-end of a's
\* month, ends at the month-end of b's month and each element is the
\* month-end of the month after its predecessor's; when the month of a is
\* after the month of b the series is empty.
C9_SeriesForOrderedDates ==
    SeriesDone =>
        LET series == calOut.series[1]
            a == calArgs.start_date
            b == calArgs.end_date
        IN  IF year_month_num(a) <= year_month_num(b)
            THEN /\ Len(series) = number_of_months_diff(a, b) + 1
                 /\ series[1] = MonthEnd(a.year, a.month)
                 /\ series[Len(series)] = MonthEnd(b.year, b.month)
                 /\ \A i \in 1..(Len(series) - 1) :
                        IsNextMonthEnd(series[i], series[i + 1])
            ELSE series = <<>>

\* C9 witness: a series that starts inside one year, runs through a December
\* and a leap-year February, and ends in the next year.
C9_Witness ==
    /\ SeriesDone
    /\ calArgs.start_date = Date(2023, 11, 30)
    /\ calArgs.end_date = Date(2024, 3, 1)
    /\ Len(calOut.series[1]) = 5
    /\ calOut.series[1][4] = Date(2024, 2, 29)

---------------------------------------------------------------------------
(* Properties of the fund engine (checked under Spec).                     *)

Constructed == pc \in {"constructed", "returned"}
Returned(name) == pc = "returned" /\ called = name /\ raised = NoException
SummaryReturned == Returned("generate_fund_schedules_summary_dict")
AllocationsReturned == Returned("generate_proceeds_allocations_as_dict")
DeploymentsReturned == Returned("generate_deployments")

\* the dates of the monthly date series, as the summary and the allocation list them
SummaryDates == Keys(returned.dates)
AllocationDates == Keys(returned.lp_preferred_payments)

RECURSIVE SumValues(_, _)
\* the sum of the first n values of a schedule
SumValues(dict, n) ==
    IF n = 0 THEN Zero ELSE RAdd(SumValues(dict, n - 1), dict[n].v)

\* months_of_deployment / interval_months, for a divisible pair
NumDeployments ==
    CHOOSE q \in (-Abs(fund.number_of_months_of_deployment))
                    ..Abs(fund.number_of_months_of_deployment) :
        q * fund.number_of_months_in_between_deployments =
            fund.number_of_months_of_deployment

\* C1: at every date of the monthly date series the five payment schedules
\* of the proceeds allocation add up to the proceeds of that date (0 when
\* there are none), whether or not the date has a surplus over the LP
\* preferred payment.
C1_ProceedsFullyAllocated ==
    SummaryReturned =>
        \A d \in SummaryDates :
            RAdd(RAdd(RAdd(RAdd(Get(returned.lp_preferred_payments, d, Zero),
                                Get(returned.catch_up_payments_gp_share, d, Zero)),
                           Get(returned.catch_up_payments_lp_share, d, Zero)),
                      Get(returned.post_catch_up_payments_gp_share, d, Zero)),
                 Get(returned.post_catch_up_payments_lp_share, d, Zero))
            = Get(returned.proceeds, d, Zero)

\* C1 witness: one date pays all three tranches out of its proceeds (the
\* surplus branch), another date has proceeds that all go to the LP preferred
\* tranche (the no-surplus branch).
C1_Witness ==
    /\ SummaryReturned
    /\ \E d \in SummaryDates :
        /\ Get(returned.lp_preferred_payments, d, Zero) # Zero
        /\ Get(returned.catch_up_payments_gp_share, d, Zero) # Zero
        /\ Get(returned.post_catch_up_payments_lp_share, d, Zero) # Zero
        /\ Get(returned.post_catch_up_payments_gp_share, d, Zero) # Zero
    /\ \E d \in SummaryDates :
        /\ Get(returned.proceeds, d, Zero) # Zero
        /\ Get(returned.lp_preferred_payments, d, Zero) = Get(returned.proceeds, d, Zero)
        /\ Get(returned.lp_preferred_closing, d, Zero) # Zero

\* C7: at every date of the monthly date series the management fee is the
\* fee-paying capital of that date times annual_mgmt_fee_rate times
\* days_in_month / days_in_year, and the fee-paying capital is
\* committed_capital up to and including the last deployment date and the
\* closing invested capital afterwards.
C7_FeesFollowFeePayingCapital ==
    SummaryReturned =>
        LET last_deployment == MaxDate(Keys(returned.deployments))
        IN  \A d \in SummaryDates :
                /\ d \in Keys(returned.mgmt_fees)
                /\ d \in Keys(returned.fee_paying_capital)
                /\ Get(returned.mgmt_fees, d, Zero) =
                     RDiv(RMul(RMul(Get(returned.fee_paying_capital, d, Zero),
                                    fund.annual_mgmt_fee_rate),
                               RInt(days_in_month(d))),
                          RInt(days_in_year(d)))
                /\ Get(returned.fee_paying_capital, d, Zero) =
                     IF DateLe(d, last_deployment)
                     THEN fund.committed_capital
                     ELSE Get(returned.closing_invested_capital, d, Zero)

\* C7 witness: the last deployment date closes with less than the committed
\* capital invested and is still charged on committed capital, and a later
\* date is charged on a closing invested capital that is neither zero nor
\* the committed capital.
C7_Witness ==
    /\ SummaryReturned
    /\ LET last_deployment == MaxDate(Keys(returned.deployments))
       IN  /\ last_deployment \in SummaryDates
           /\ Get(returned.closing_invested_capital, last_deployment, Zero)
                # fund.committed_capital
           /\ Get(returned.mgmt_fees, last_deployment, Zero) # Zero
           /\ \E d \in SummaryDates :
                /\ DateLt(last_deployment, d)
                /\ Get(returned.closing_invested_capital, d, Zero)
                     \notin {Zero, fund.committed_capital}
                /\ Get(returned.mgmt_fees, d, Zero) # Zero

CarryBelowHalf ==
    RLe(Zero, fund.carry_percent) /\ RLt(fund.carry_percent, Half)

\* C10: for carry_percent in [0, 0.5), at every date of the monthly date
\* series a catch-up payment or a post-catch-up payment is non-zero only if
\* the LP preferred balance closes at 0, and a post-catch-up payment is
\* non-zero only if the catch-up payment of that date is the full catch-up
\* capacity (catch_up_opening + catch_up_accrual) / 0.5 and the catch-up
\* balance closes at 0.
C10_TranchesPaidInPriority ==
    (AllocationsReturned /\ CarryBelowHalf) =>
        \A d \in AllocationDates :
            LET catch_up_paid ==
                    \/ Get(returned.catch_up_payments_gp_share, d, Zero) # Zero
                    \/ Get(returned.catch_up_payments_lp_share, d, Zero) # Zero
                post_paid ==
                    \/ Get(returned.post_catch_up_payments_gp_share, d, Zero) # Zero
                    \/ Get(returned.post_catch_up_payments_lp_share, d, Zero) # Zero
            IN  /\ (catch_up_paid \/ post_paid) =>
                     Get(returned.lp_preferred_closing, d, One) = Zero
                /\ post_paid =>
                     /\ RAdd(Get(returned.catch_up_payments_gp_share, d, Zero),
                             Get(returned.catch_up_payments_lp_share, d, Zero))
                        = RDiv(RAdd(Get(returned.catch_up_opening, d, Zero),
                                    Get(returned.catch_up_accruals, d, Zero)), Half)
                     /\ Get(returned.catch_up_closing, d, One) = Zero

\* C10 witness: with a carry strictly between 0 and 0.5 and the catch-up on,
\* one date pays a catch-up and a post-catch-up payment, and another date
\* pays a catch-up payment that uses up the surplus, so that nothing is left
\* for a post-catch-up payment.
C10_Witness ==
    /\ AllocationsReturned
    /\ CarryBelowHalf
    /\ \E d \in AllocationDates :
        /\ Get(returned.catch_up_payments_gp_share, d, Zero) # Zero
        /\ Get(returned.post_catch_up_payments_gp_share, d, Zero) # Zero
    /\ \E d \in AllocationDates :
        /\ Get(returned.catch_up_payments_gp_share, d, Zero) # Zero
        /\ Get(returned.post_catch_up_payments_lp_share, d, Zero) = Zero
        /\ Get(returned.catch_up_closing, d, Zero) # Zero

\* C5 as stated: generate_deployments() has months_of_deployment /
\* interval_months entries, and the k-th is dated add_n_months(deployment
\* start, k * interval_months, end_of_month=False), the day of the month of
\* the deployment start being kept, with value committed_capital / number of
\* deployments.  (Read on the funds with a positive number of deployments.)
C5_DeploymentsKeepDayOfMonth ==
    (DeploymentsReturned /\ NumDeployments > 0) =>
        /\ Len(returned) = NumDeployments
        /\ \A k \in 0..(NumDeployments - 1) :
            /\ returned[k + 1].k =
                 add_n_months(fund.deployment_start_date,
                              k * fund.number_of_months_in_between_deployments, FALSE)
            /\ returned[k + 1].v =
                 RDiv(fund.committed_capital, RInt(NumDeployments))

\* C5 amended: whenever generate_deployments() returns, it has one entry for
\* each k in [0, number of deployments), none when that number is negative;
\* the k-th entry is dated the month-end of the month k * interval_months
\* after the month of the deployment start (add_n_months with
\* end_of_month=True), with value committed_capital / number of deployments.
C5_DeploymentsAtMonthEnds ==
    DeploymentsReturned =>
        /\ Len(returned) = IF NumDeployments > 0 THEN NumDeployments ELSE 0
        /\ \A k \in 0..(NumDeployments - 1) :
            /\ IsMonthEnd(returned[k + 1].k)
            /\ year_month_num(returned[k + 1].k) =
                 year_month_num(fund.deployment_start_date)
                 + k * fund.number_of_months_in_between_deployments
            /\ returned[k + 1].v =
                 RDiv(fund.committed_capital, RInt(NumDeployments))

\* C5 witness: three deployments from 2024-02-29, the later ones on the 31st
\* and the 30th, days the deployment start does not have.
C5_Witness ==
    /\ DeploymentsReturned
    /\ fund.deployment_start_date = Date(2024, 2, 29)
    /\ Len(returned) = 3
    /\ returned[2].k = Date(2024, 3, 31)
    /\ returned[3].k = Date(2024, 4, 30)
    /\ returned[3].v = R(100, 3)

\* C2 as stated: for every configuration the constructor accepts,
\* generate_deployments() returns and its values sum to committed_capital.
C2_DeploymentsSumToCommitted ==
    (pc = "returned" /\ called = "generate_deployments") =>
        /\ raised = NoException
        /\ SumValues(returned, Len(returned)) = fund.committed_capital

ScheduleOperations ==
    {"monthly_date_series", "generate_deployments", "generate_proceeds",
     "generate_capital_returns", "generate_profits",
     "generate_closing_invested_capital", "generate_fee_paying_capital",
     "generate_mgmt_fees", "generate_proceeds_allocations_as_dict"}

\* C3 as stated: on a constructed fund a schedule operation raises only in
\* the proceeds allocation, and only the division by zero of carry_percent = 0.5.
C3_OnlyHalfCarryRaises ==
    (pc = "returned" /\ called \in ScheduleOperations /\ raised # NoException) =>
        /\ called = "generate_proceeds_allocations_as_dict"
        /\ fund.carry_percent = Half
        /\ raised.type = "ZeroDivisionError"

\* the five conditions of the constructor, on the arguments as passed
DeploymentNotBeforeFund == DateLe(args.fund_start_date, args.deployment_start_date)
FundStartIsMonthEnd == IsMonthEnd(args.fund_start_date)
DeploymentStartIsMonthEnd == IsMonthEnd(args.deployment_start_date)
\* months_of_deployment is a whole multiple of interval_months
MonthsDivisible ==
    \E q \in (-Abs(args.number_of_months_of_deployment))
                ..Abs(args.number_of_months_of_deployment) :
        q * args.number_of_months_in_between_deployments =
            args.number_of_months_of_deployment
CapitalPositive == RLt(Zero, args.committed_capital)
AllConditionsHold ==
    /\ DeploymentNotBeforeFund
    /\ FundStartIsMonthEnd
    /\ DeploymentStartIsMonthEnd
    /\ MonthsDivisible
    /\ CapitalPositive
FirstViolatedMessage ==
    IF ~DeploymentNotBeforeFund
    THEN "Deployment start date must be later than fund start date"
    ELSE IF ~FundStartIsMonthEnd THEN "Fund start date must be at end of month"
    ELSE IF ~DeploymentStartIsMonthEnd
    THEN "Deployment start date must be at end of month"
    ELSE IF ~MonthsDivisible THEN "There must be a whole number of deployments"
    ELSE "Committed capital must be greater than zero"

\* C4 as stated: construction raises ClosedEndFundError exactly when one of
\* the five conditions is violated, the error is that of the first violated
\* condition, and no instance is produced in an error case.
C4_ConfigurationErrorIffViolated ==
    (pc \in {"constructed", "rejected"}) =>
        /\ (raised.type = "ClosedEndFundError") <=> ~AllConditionsHold
        /\ ~AllConditionsHold => raised.message = FirstViolatedMessage
        /\ raised # NoException => fund = NoFund

ScheduleNames ==
    {"deployments", "capital_returns", "closing_invested_capital",
     "fee_paying_capital", "mgmt_fees", "proceeds",
     "lp_preferred_opening", "lp_preferred_irr_growth", "lp_preferred_payments",
     "lp_preferred_closing", "catch_up_opening", "catch_up_accruals",
     "catch_up_payments_gp_share", "catch_up_payments_lp_share",
     "catch_up_closing", "post_catch_up_payments_gp_share",
     "post_catch_up_payments_lp_share"}

\* C6 as stated: every key of every schedule is a month-end of the monthly
\* date series, and the series runs without gaps from the fund start to the
\* last capital-return date.
C6_ScheduleKeysInSeries ==
    SummaryReturned =>
        /\ \A name \in ScheduleNames :
            \A d \in Keys(returned[name]) : IsMonthEnd(d) /\ d \in SummaryDates
        /\ \A d \in Keys(generate_profits(fund).value) :
            IsMonthEnd(d) /\ d \in SummaryDates
        /\ Len(returned.dates) >= 1
        /\ returned.dates[1].k = fund.fund_start_date
        /\ returned.dates[Len(returned.dates)].k = MaxDate(Keys(returned.capital_returns))
        /\ \A i \in 1..(Len(returned.dates) - 1) :
            IsNextMonthEnd(returned.dates[i].k, returned.dates[i + 1].k)

\* C11: when carry_catch_up is false and carry_percent is not 0.5, at every
\* date of the monthly date series the five catch-up schedules
\* (catch_up_opening, catch_up_accruals, catch_up_payments_gp_share,
\* catch_up_payments_lp_share, catch_up_closing) are 0, and the surplus
\* proceed - lp_preferred_payment is paid out whole after the catch-up:
\* surplus * (1 - carry_percent) to the LP and surplus * carry_percent to the GP.
C11_NoCatchUpWhenSwitchedOff ==
    (SummaryReturned /\ ~fund.carry_catch_up /\ fund.carry_percent # Half) =>
        \A d \in SummaryDates :
            LET surplus == RSub(Get(returned.proceeds, d, Zero),
                                Get(returned.lp_preferred_payments, d, One))
            IN  /\ Get(returned.catch_up_opening, d, One) = Zero
                /\ Get(returned.catch_up_accruals, d, One) = Zero
                /\ Get(returned.catch_up_payments_gp_share, d, One) = Zero
                /\ Get(returned.catch_up_payments_lp_share, d, One) = Zero
                /\ Get(returned.catch_up_closing, d, One) = Zero
                /\ Get(returned.post_catch_up_payments_lp_share, d, One)
                   = RMul(surplus, RSub(One, fund.carry_percent))
                /\ Get(returned.post_catch_up_payments_gp_share, d, One)
                   = RMul(surplus, fund.carry_percent)

\* C11 witness: the catch-up is off, the carry is strictly between 0 and 0.5
\* and the hurdle has made the LP preferred balance grow (so that a catch-up
\* would have accrued), and one date has a surplus that is split between the
\* LP and the GP while another date has proceeds but no surplus.
C11_Witness ==
    /\ SummaryReturned
    /\ ~fund.carry_catch_up
    /\ RLt(Zero, fund.carry_percent) /\ RLt(fund.carry_percent, Half)
    /\ \E d \in SummaryDates :
        RLt(Zero, Get(returned.lp_preferred_irr_growth, d, Zero))
    /\ \E d \in SummaryDates :
        /\ RLt(Get(returned.lp_preferred_payments, d, Zero),
               Get(returned.proceeds, d, Zero))
        /\ Get(returned.post_catch_up_payments_gp_share, d, Zero) # Zero
        /\ Get(returned.post_catch_up_payments_lp_share, d, Zero) # Zero
    /\ \E d \in SummaryDates :
        /\ Get(returned.proceeds, d, Zero) # Zero
        /\ Get(returned.lp_preferred_payments, d, Zero) = Get(returned.proceeds, d, Zero)

\* C12 as stated: for every constructed fund with
\* length_of_deployment_in_months >= 0 and a positive number of deployments,
\* the closing invested capital of every date of the monthly date series is
\* the closing invested capital of the date before it (0 before the first
\* date) plus the deployment minus the capital return of the date, lies
\* within [0, committed_capital], and is 0 at the last date of the series.
C12_ClosingInvestedCapitalBounded ==
    (/\ SummaryReturned
     /\ fund.length_of_deployment_in_months >= 0
     /\ NumDeployments > 0) =>
        /\ Len(returned.dates) >= 1
        /\ \A i \in 1..Len(returned.dates) :
            LET d == returned.dates[i].k
                closing == Get(returned.closing_invested_capital, d, RInt(-1))
                before == IF i = 1 THEN Zero
                          ELSE Get(returned.closing_invested_capital,
                                   returned.dates[i - 1].k, RInt(-1))
            IN  /\ closing = RSub(RAdd(before, Get(returned.deployments, d, Zero)),
                                  Get(returned.capital_returns, d, Zero))
                /\ RLe(Zero, closing)
                /\ RLe(closing, fund.committed_capital)
        /\ Get(returned.closing_invested_capital,
               returned.dates[Len(returned.dates)].k, RInt(-1)) = Zero

HurdleNotNegative == RLe(Zero, fund.annual_effective_irr_hurdle)

\* C13: for every constructed fund with annual_effective_irr_hurdle >= 0 and
\* carry_percent in [0, 0.5), at every date of the monthly date series the
\* LP preferred balance and the catch-up balance close at 0 or more: no
\* tranche is paid more than it is owed.
C13_TrancheBalancesNotNegative ==
    (AllocationsReturned /\ HurdleNotNegative /\ CarryBelowHalf) =>
        \A d \in AllocationDates :
            /\ RLe(Zero, Get(returned.lp_preferred_closing, d, RInt(-1)))
            /\ RLe(Zero, Get(returned.catch_up_closing, d, RInt(-1)))

\* C13 witness: with a positive hurdle, a carry strictly between 0 and 0.5
\* and the catch-up on, one date has the LP preferred balance paid off and a
\* catch-up payment that brings the catch-up balance to exactly 0 (the
\* payment is twice the balance, its GP half is the balance), and another
\* date pays a catch-up payment that the surplus limits, so that a part of
\* the catch-up balance is carried forward.
C13_Witness ==
    /\ AllocationsReturned
    /\ RLt(Zero, fund.annual_effective_irr_hurdle)
    /\ RLt(Zero, fund.carry_percent) /\ RLt(fund.carry_percent, Half)
    /\ \E d \in AllocationDates :
        /\ Get(returned.lp_preferred_closing, d, One) = Zero
        /\ Get(returned.catch_up_payments_gp_share, d, Zero)
           = RAdd(Get(returned.catch_up_opening, d, Zero),
                  Get(returned.catch_up_accruals, d, Zero))
        /\ Get(returned.catch_up_payments_gp_share, d, Zero) # Zero
        /\ Get(returned.catch_up_closing, d, One) = Zero
    /\ \E d \in AllocationDates :
        /\ Get(returned.lp_preferred_closing, d, One) = Zero
        /\ Get(returned.catch_up_payments_gp_share, d, Zero) # Zero
        /\ RLt(Zero, Get(returned.catch_up_closing, d, Zero))

=============================================================================
